---- MODULE Spec2Model ----
(***************************************************************************)
(* star-burger: the order/restaurant pre-save hooks, the geocoder adapter, *)
(* the price lock of ordered items and the restaurant matching of          *)
(* foodcartapp, as state machines over the stored tables.                  *)
(*                                                                         *)
(* Optional values (Python None) of numeric fields are sequences: <<>> is  *)
(* None and <<v>> is the value v.  Foreign keys and ids use the sentinels  *)
(* None and NoId.                                                          *)
(***************************************************************************)
EXTENDS Integers, Sequences, FiniteSets, TLC

VARIABLES
    orders,       \* Order rows by id
    restaurants,  \* Restaurant rows by id
    menu,         \* RestaurantMenuItem rows, in the order a query returns them
    prices,       \* Product.price by product
    items,        \* OrderedItem rows by id
    locked,       \* history: product_price of each OrderedItem as first stored
    inst,         \* the model instance the running request holds in memory
    last          \* what the last step did: operation, inputs, outcome

vars == <<orders, restaurants, menu, prices, items, locked, inst, last>>

\* ---------------------------------------------------------------- bounds
MaxOrders == 2
MaxPlaces == 2
MaxItems == 2
MaxPayloadItems == 2

\* ------------------------------------------------------------- constants
None == "None"
NoId == 0
NoCoord == <<>>
NoCoords == [latitude |-> NoCoord, longitude |-> NoCoord]

OrderStatus == {"SUBMITTED", "IN_PROGRESS", "IN_DELIVERY", "DELIVERED"}
RestaurantIds == {"r1", "r2"}
Addresses == {"", "a", "b"}
Products == {"pA", "pB"}

\* A "pos" of the geocoder's reply after split(" "): <<longitude, latitude>>.
PosSet == {<<1, 2>>, <<2, 1>>}

\* The coordinate pairs a caller writes on an instance.
CoordPairs ==
    {[latitude |-> NoCoord, longitude |-> NoCoord],
     [latitude |-> <<2>>, longitude |-> <<1>>],
     [latitude |-> <<1>>, longitude |-> <<2>>]}

RECURSIVE SeqsUpTo(_, _)
SeqsUpTo(S, n) ==
    IF n = 0 THEN {<<>>}
    ELSE LET shorter == SeqsUpTo(S, n - 1)
         IN shorter \cup {Append(s, x) : s \in shorter, x \in S}

\* The HTTP replies of the geocoding service: response.ok and featureMember.
Responses == [ok : BOOLEAN, places : SeqsUpTo(PosSet, MaxPlaces)]

\* ---------------------------------------------------------------- geocoder
\* resolve_location_for_address: None (here <<>>) or the tuple (lon, lat).
resolve_location_for_address(response) ==
    IF ~response.ok THEN <<>>
    ELSE LET found_places == response.places
         IN IF found_places = <<>> THEN <<>>
            ELSE LET most_relevant == found_places[1]
                     lon == most_relevant[1]
                     lat == most_relevant[2]
                 IN <<lon, lat>>

\* ------------------------------------------------------------ order table
Order(status, executing_restaurant, delivery_address, coords) ==
    [status |-> status,
     executing_restaurant |-> executing_restaurant,
     delivery_address |-> delivery_address,
     delivery_latitude |-> coords.latitude,
     delivery_longitude |-> coords.longitude]

NoInstance == [kind |-> "none"]
Idle == [op |-> "idle"]

OrderInstance(id, row) == [kind |-> "order", id |-> id, row |-> row]

\* Variant: the rule only advances an order that is still SUBMITTED.
status_rule_submitted_only(previous, row) ==
    IF previous.executing_restaurant # row.executing_restaurant
       /\ row.executing_restaurant # None
       /\ row.status = "SUBMITTED"
    THEN [row EXCEPT !.status = "IN_PROGRESS"]
    ELSE row

\* Variant: the rule fires on the first assignment only (absent to present).
status_rule_first_assignment(previous, row) ==
    IF previous.executing_restaurant = None /\ row.executing_restaurant # None
    THEN [row EXCEPT !.status = "IN_PROGRESS"]
    ELSE row

\* Variant: the rule compares the restaurant but never writes the status.
status_rule_off(previous, row) == row

\* Variant: the rule fires whenever the instance has an executing restaurant.
status_rule_any_restaurant(previous, row) ==
    IF row.executing_restaurant # None
    THEN [row EXCEPT !.status = "IN_PROGRESS"]
    ELSE row

\* if (previous.executing_restaurant != instance.executing_restaurant
\*     and instance.executing_restaurant is not None): status = IN_PROGRESS
status_rule(previous, row) ==
    IF previous.executing_restaurant # row.executing_restaurant
       /\ row.executing_restaurant # None
    THEN [row EXCEPT !.status = "IN_PROGRESS"]
    ELSE row

\* Variant: the hook geocodes every address that differs, the empty one too.
address_changed_or_emptied(previous_address, address) ==
    previous_address # address

\* Whether the hook calls the geocoder for this save.
address_changed(previous_address, address) ==
    previous_address # address /\ address # ""

\* Python truthiness of a string of the reply: only "" is false.  The model
\* writes a coordinate string as the number it spells; 0 - 1 is "".
EmptyString == 0 - 1
truthy_string(text) == text # EmptyString

\* Variant: the rule stores the first element of the pair only.
order_address_rule_latitude_only(previous, row, response) ==
    IF address_changed(previous.delivery_address, row.delivery_address)
    THEN LET resolved == resolve_location_for_address(response)
         IN IF Len(resolved) # 2
            THEN [raised |-> "TypeError", row |-> row, calls |-> 1]
            ELSE [raised |-> "",
                  row |-> [row EXCEPT !.delivery_latitude = <<resolved[1]>>],
                  calls |-> 1]
    ELSE [raised |-> "", row |-> row, calls |-> 0]

\* latitude, longitude = resolve_location_for_address(...): unpacking None
\* raises TypeError; otherwise the first element lands in latitude.
order_address_rule(previous, row, response) ==
    IF address_changed(previous.delivery_address, row.delivery_address)
    THEN LET resolved == resolve_location_for_address(response)
         IN IF Len(resolved) # 2
            THEN [raised |-> "TypeError", row |-> row, calls |-> 1]
            ELSE LET latitude == resolved[1]
                     longitude == resolved[2]
                 IN IF truthy_string(latitude) /\ truthy_string(longitude)
                    THEN [raised |-> "",
                          row |-> [row EXCEPT !.delivery_latitude = <<latitude>>,
                                              !.delivery_longitude = <<longitude>>],
                          calls |-> 1]
                    ELSE [raised |-> "", row |-> row, calls |-> 1]
    ELSE [raised |-> "", row |-> row, calls |-> 0]

\* ------------------------------------------------------- restaurant table
Restaurant(address, coords) ==
    [address |-> address, latitude |-> coords.latitude, longitude |-> coords.longitude]

RestaurantInstance(id, row) == [kind |-> "restaurant", id |-> id, row |-> row]

\* pre_save receiver of Restaurant: Restaurant.objects.get(id=instance.id)
\* raises DoesNotExist when no stored row has that id.
update_restaurant_location(table, instance, response) ==
    IF instance.id \notin DOMAIN table
    THEN [raised |-> "DoesNotExist", row |-> instance.row, calls |-> 0]
    ELSE LET previous_location == table[instance.id]
             row == instance.row
         IN IF address_changed(previous_location.address, row.address)
            THEN LET resolved == resolve_location_for_address(response)
                 IN IF Len(resolved) # 2
                    THEN [raised |-> "TypeError", row |-> row, calls |-> 1]
                    ELSE LET latitude == resolved[1]
                             longitude == resolved[2]
                         IN IF truthy_string(latitude) /\ truthy_string(longitude)
                            THEN [raised |-> "",
                                  row |-> [row EXCEPT !.latitude = <<latitude>>,
                                                      !.longitude = <<longitude>>],
                                  calls |-> 1]
                            ELSE [raised |-> "", row |-> row, calls |-> 1]
            ELSE [raised |-> "", row |-> row, calls |-> 0]

\* Model.save of a Restaurant: the receiver, then the UPDATE (or INSERT under
\* the given new id).
Restaurant_save(table, instance, new_id, response) ==
    LET hook == update_restaurant_location(table, instance, response)
        id == IF instance.id = None THEN new_id ELSE instance.id
    IN IF hook.raised # ""
       THEN [raised |-> hook.raised, table |-> table, id |-> instance.id,
             row |-> hook.row, calls |-> hook.calls]
       ELSE [raised |-> "", id |-> id, row |-> hook.row, calls |-> hook.calls,
             table |-> [k \in DOMAIN table \cup {id} |->
                            IF k = id THEN hook.row ELSE table[k]]]

\* pre_save receiver of Order: Order.objects.get(id=instance.id) raises
\* DoesNotExist when no stored row has that id (instance.id is None on create).
update_order(table, instance, response) ==
    IF instance.id \notin DOMAIN table
    THEN [raised |-> "DoesNotExist", row |-> instance.row, calls |-> 0]
    ELSE LET previous_order_instance == table[instance.id]
         IN order_address_rule(previous_order_instance,
                               status_rule(previous_order_instance, instance.row),
                               response)

\* Model.save of an Order: the pre_save receiver runs first; when it raises
\* nothing is written.  A new instance is INSERTed under the next id.
Order_save(table, instance, response) ==
    LET hook == update_order(table, instance, response)
        id == IF instance.id = NoId THEN Cardinality(DOMAIN table) + 1 ELSE instance.id
    IN IF hook.raised # ""
       THEN [raised |-> hook.raised, table |-> table, id |-> instance.id,
             row |-> hook.row, calls |-> hook.calls]
       ELSE [raised |-> "", id |-> id, row |-> hook.row, calls |-> hook.calls,
             table |-> [k \in DOMAIN table \cup {id} |->
                            IF k = id THEN hook.row ELSE table[k]]]

\* ------------------------------------------------------- ordered item table
OrderedItem(order, product, quantity, product_price) ==
    [order |-> order, product |-> product, quantity |-> quantity,
     product_price |-> product_price]

ItemInstance(id, row) == [kind |-> "item", id |-> id, row |-> row]

\* DecimalField(max_digits=6, decimal_places=2): the largest whole amount kept.
MaxProductPrice == 9999

\* Variant: the receiver recomputes the price on every save.
update_ordered_item_price_recompute(table, instance, price) ==
    [raised |-> "",
     row |-> [instance.row EXCEPT
                !.product_price = price[instance.row.product] * instance.row.quantity]]

\* pre_save receiver of OrderedItem.
update_ordered_item_price(table, instance, price) ==
    IF instance.id = NoId
    THEN [raised |-> "",
          row |-> [instance.row EXCEPT
                     !.product_price = price[instance.row.product] * instance.row.quantity]]
    ELSE IF instance.id \notin DOMAIN table
    THEN [raised |-> "DoesNotExist", row |-> instance.row]
    ELSE LET previous_product_price == table[instance.id].product_price
         IN IF previous_product_price # instance.row.product_price
            THEN [raised |-> "",
                  row |-> [instance.row EXCEPT !.product_price = previous_product_price]]
            ELSE [raised |-> "", row |-> instance.row]

\* Model.save of an OrderedItem: the receiver, then INSERT or UPDATE; a
\* product_price that does not fit the column is refused by the field.
OrderedItem_save(table, instance, price) ==
    LET hook == update_ordered_item_price(table, instance, price)
        id == IF instance.id = NoId THEN Cardinality(DOMAIN table) + 1 ELSE instance.id
    IN IF hook.raised # ""
       THEN [raised |-> hook.raised, table |-> table, id |-> instance.id, row |-> hook.row]
       ELSE IF hook.row.product_price > MaxProductPrice
       THEN [raised |-> "InvalidOperation", table |-> table, id |-> instance.id,
             row |-> hook.row]
       ELSE [raised |-> "", id |-> id, row |-> hook.row,
             table |-> [k \in DOMAIN table \cup {id} |->
                            IF k = id THEN hook.row ELSE table[k]]]

\* ------------------------------------------------------------- order intake
\* ProductQuerySet.available: products some menu row offers with availability.
available(rows) == {rows[k].product : k \in {j \in DOMAIN rows : rows[j].availability}}

MinQuantity == 1
MaxQuantity == 1000

\* Variant: the quantity has no upper limit.
is_valid_no_max(rows, data) ==
    /\ data.products # <<>>
    /\ \A k \in DOMAIN data.products :
          /\ data.products[k].product \in available(rows)
          /\ data.products[k].quantity >= MinQuantity
    /\ data.address # ""

\* OrderedItemSerializer / OrderSerializer.products: the payload's validation.
is_valid(rows, data) ==
    /\ data.products # <<>>
    /\ \A k \in DOMAIN data.products :
          /\ data.products[k].product \in available(rows)
          /\ data.products[k].quantity >= MinQuantity
          /\ data.products[k].quantity <= MaxQuantity
    /\ data.address # ""

\* for entity in ordered_items_data: OrderedItem.objects.create(**entity, order=order)
\* The loop stops at the first save that raises.
RECURSIVE create_items(_, _, _, _)
create_items(table, ordered_items_data, order, price) ==
    IF ordered_items_data = <<>> THEN [raised |-> "", table |-> table]
    ELSE LET entity == Head(ordered_items_data)
             saved == OrderedItem_save(
                          table,
                          ItemInstance(NoId, OrderedItem(order, entity.product,
                                                         entity.quantity, 0)),
                          price)
         IN IF saved.raised # "" THEN [raised |-> saved.raised, table |-> saved.table]
            ELSE create_items(saved.table, Tail(ordered_items_data), order, price)

\* @atomic: an exception leaving the block rolls every write of it back.
atomic(before, result) ==
    IF result.raised # "" THEN [result EXCEPT !.db = before] ELSE result

\* OrderSerializer.create
create(db, validated_data, price, response) ==
    LET order == Order_save(
                     db.orders,
                     OrderInstance(NoId, Order("SUBMITTED", None, validated_data.address,
                                               [latitude |-> NoCoord, longitude |-> NoCoord])),
                     response)
    IN IF order.raised # ""
       THEN atomic(db, [raised |-> order.raised, id |-> NoId,
                        db |-> [orders |-> order.table, items |-> db.items]])
       ELSE LET lines == create_items(db.items, validated_data.products, order.id, price)
            IN atomic(db, [raised |-> lines.raised, id |-> order.id,
                           db |-> [orders |-> order.table, items |-> lines.table]])

\* -------------------------------------------------------------- actions

InitOrders == (1 :> Order("SUBMITTED", None, "a", NoCoords))

InitRestaurants == [r \in RestaurantIds |-> Restaurant("a", NoCoords)]

MenuItem(restaurant, product, availability) ==
    [restaurant |-> restaurant, product |-> product, availability |-> availability]

InitMenu == <<MenuItem("r1", "pA", TRUE), MenuItem("r1", "pB", FALSE), MenuItem("r2", "pA", TRUE)>>

InitPrices == [p \in Products |-> IF p = "pA" THEN 100 ELSE 50]

Init ==
    /\ orders = InitOrders
    /\ restaurants = InitRestaurants
    /\ menu = InitMenu
    /\ prices = InitPrices
    /\ items = <<>>
    /\ locked = <<>>
    /\ inst = NoInstance
    /\ last = Idle

\* order = Order.objects.get(id=o)
LoadOrder(o) ==
    /\ inst.kind = "none"
    /\ last = Idle
    /\ o \in DOMAIN orders
    /\ inst' = OrderInstance(o, orders[o])
    /\ last' = Idle
    /\ UNCHANGED <<orders, restaurants, menu, prices, items, locked>>

\* The caller writes the fields of the loaded instance.
EditOrder ==
    /\ inst.kind = "order"
    /\ \/ \E s \in OrderStatus : inst' = [inst EXCEPT !.row.status = s]
       \/ \E r \in RestaurantIds \cup {None} :
             inst' = [inst EXCEPT !.row.executing_restaurant = r]
       \/ \E a \in Addresses : inst' = [inst EXCEPT !.row.delivery_address = a]
       \/ \E c \in CoordPairs :
             inst' = [inst EXCEPT !.row.delivery_latitude = c.latitude,
                                  !.row.delivery_longitude = c.longitude]
    /\ inst' # inst
    /\ last' = Idle
    /\ UNCHANGED <<orders, restaurants, menu, prices, items, locked>>

GeoOutcome(calls, response) ==
    IF calls = 0 THEN "notcalled"
    ELSE IF resolve_location_for_address(response) = <<>> THEN "unresolved"
    ELSE "resolved"

\* The first place of the reply, as (latitude, longitude), when it resolves.
FirstPlace(calls, response) ==
    IF calls = 0 \/ ~response.ok \/ response.places = <<>> THEN <<>>
    ELSE <<[latitude |-> response.places[1][2], longitude |-> response.places[1][1]]>>

NoResponse == [ok |-> FALSE, places |-> <<>>]

\* Order(status=.., executing_restaurant=.., ...): a new order, not saved yet.
NewOrder ==
    /\ inst.kind = "none"
    /\ last = Idle
    /\ Cardinality(DOMAIN orders) < MaxOrders
    /\ \E s \in OrderStatus, r \in RestaurantIds \cup {None} :
          inst' = OrderInstance(NoId, Order(s, r, "b", NoCoords))
    /\ UNCHANGED <<orders, restaurants, menu, prices, items, locked, last>>

\* order.save(): the pre_save hook, then the UPDATE of the stored row (the
\* INSERT for a new instance).
SaveOrder ==
    /\ inst.kind = "order"
    /\ \E response \in Responses :
          LET saved == Order_save(orders, inst, response)
          IN /\ (saved.calls = 0 => response = NoResponse)
             /\ inst' = [inst EXCEPT !.row = saved.row, !.id = saved.id]
             /\ orders' = saved.table
             /\ last' = IF inst.id = NoId
                        THEN [op |-> "insert_order",
                              id |-> saved.id,
                              outcome |-> IF saved.raised = "" THEN "ok" ELSE saved.raised,
                              proposed |-> inst.row,
                              calls |-> saved.calls]
                        ELSE [op |-> "save_order",
                              id |-> inst.id,
                              outcome |-> IF saved.raised = "" THEN "ok" ELSE saved.raised,
                              previous |-> orders[inst.id],
                              proposed |-> inst.row,
                              calls |-> saved.calls,
                              geo |-> GeoOutcome(saved.calls, response),
                              place |-> FirstPlace(saved.calls, response)]
    /\ UNCHANGED <<restaurants, menu, prices, items, locked>>

\* The payloads of the order intake: an address and (product, quantity) pairs.
PayloadQuantities == {0, 1, 1000, 1001}

Payloads ==
    [address : {"b"},
     products : SeqsUpTo([product : Products, quantity : PayloadQuantities],
                         MaxPayloadItems)]

\* Order intake: the serializer validates the payload and, when it is valid,
\* OrderSerializer.create stores the order and its line items.
CreateOrder ==
    /\ inst.kind = "none"
    /\ last = Idle
    /\ Cardinality(DOMAIN orders) < MaxOrders
    /\ \E data \in Payloads, response \in Responses :
          IF ~is_valid(menu, data)
          THEN /\ response = NoResponse
               /\ last' = [op |-> "create_order", outcome |-> "ValidationError",
                           data |-> data, id |-> NoId, before |-> [orders |-> orders, items |-> items]]
               /\ UNCHANGED <<orders, items, locked>>
          ELSE LET done == create([orders |-> orders, items |-> items], data, prices, response)
               IN /\ response = NoResponse
                  /\ orders' = done.db.orders
                  /\ items' = done.db.items
                  /\ locked' = [k \in DOMAIN done.db.items |->
                                   IF k \in DOMAIN locked THEN locked[k]
                                   ELSE done.db.items[k].product_price]
                  /\ last' = [op |-> "create_order",
                              outcome |-> IF done.raised = "" THEN "ok" ELSE done.raised,
                              data |-> data, id |-> done.id,
                              before |-> [orders |-> orders, items |-> items]]
    /\ UNCHANGED <<restaurants, menu, prices, inst>>

\* The request ends; the in-memory instance is dropped.
Discard ==
    /\ inst.kind # "none" \/ last # Idle
    /\ inst' = NoInstance
    /\ last' = Idle
    /\ UNCHANGED <<orders, restaurants, menu, prices, items, locked>>

\* ------------------------------------------------------- ordered item steps
ItemQuantities == {1, 2}
PriceValues == {50, 5000}
CallerPrices == {1}

\* OrderedItem(order=.., product=.., quantity=.., product_price=..): not saved yet.
NewItem ==
    /\ inst.kind = "none"
    /\ last = Idle
    /\ Cardinality(DOMAIN items) < MaxItems
    /\ \E o \in DOMAIN orders, p \in Products, q \in ItemQuantities, c \in CallerPrices :
          inst' = ItemInstance(NoId, OrderedItem(o, p, q, c))
    /\ UNCHANGED <<orders, restaurants, menu, prices, items, locked, last>>

\* item = OrderedItem.objects.get(id=i)
LoadItem(i) ==
    /\ inst.kind = "none"
    /\ last = Idle
    /\ i \in DOMAIN items
    /\ inst' = ItemInstance(i, items[i])
    /\ UNCHANGED <<orders, restaurants, menu, prices, items, locked, last>>

\* The caller writes quantity or product_price of the loaded item.
EditItem ==
    /\ inst.kind = "item"
    /\ inst.id # NoId
    /\ \/ \E q \in ItemQuantities : inst' = [inst EXCEPT !.row.quantity = q]
       \/ \E c \in CallerPrices : inst' = [inst EXCEPT !.row.product_price = c]
    /\ inst' # inst
    /\ last' = Idle
    /\ UNCHANGED <<orders, restaurants, menu, prices, items, locked>>

\* item.save(): the pre_save hook, then the INSERT or UPDATE.
SaveItem ==
    /\ inst.kind = "item"
    /\ LET saved == OrderedItem_save(items, inst, prices)
       IN /\ inst' = [inst EXCEPT !.row = saved.row, !.id = saved.id]
          /\ items' = saved.table
          /\ locked' = [k \in DOMAIN saved.table |->
                           IF k \in DOMAIN locked THEN locked[k]
                           ELSE saved.table[k].product_price]
          /\ last' = [op |-> "save_item",
                      id |-> saved.id,
                      created |-> (inst.id = NoId),
                      outcome |-> IF saved.raised = "" THEN "ok" ELSE saved.raised,
                      proposed |-> inst.row,
                      unit_price |-> prices[inst.row.product]]
    /\ UNCHANGED <<orders, restaurants, menu, prices>>

\* An operator edits a product's catalog price (Product has no receiver).
ChangePrice ==
    /\ inst.kind = "none"
    /\ last = Idle
    /\ \E p \in Products, v \in PriceValues :
          /\ prices[p] # v
          /\ prices' = [prices EXCEPT ![p] = v]
    /\ UNCHANGED <<orders, restaurants, menu, items, locked, inst, last>>

\* ------------------------------------------------------------ total_amount
RECURSIVE SumOver(_, _)
SumOver(S, table) ==
    IF S = {} THEN 0
    ELSE LET k == CHOOSE x \in S : TRUE
         IN table[k] + SumOver(S \ {k}, table)

ItemsOf(table, o) == {k \in DOMAIN table : table[k].order = o}

\* OrderQuerySet.total_amount: the annotated queryset, as order id -> Sum(...);
\* SQL's SUM over no rows is NULL (<<>>).
total_amount(order_table, item_table, exclude_delivered) ==
    LET queryset == IF exclude_delivered
                    THEN {o \in DOMAIN order_table : order_table[o].status # "DELIVERED"}
                    ELSE DOMAIN order_table
        term == [k \in DOMAIN item_table |->
                    item_table[k].quantity * item_table[k].product_price]
    IN [o \in queryset |->
           IF ItemsOf(item_table, o) = {} THEN <<>>
           ELSE <<SumOver(ItemsOf(item_table, o), term)>>]

\* Order.objects.total_amount(exclude_delivered): the order list is read.
ListOrders ==
    /\ inst.kind = "none"
    /\ last = Idle
    /\ \E exclude_delivered \in BOOLEAN :
          last' = [op |-> "total_amount",
                   exclude_delivered |-> exclude_delivered,
                   result |-> total_amount(orders, items, exclude_delivered)]
    /\ UNCHANGED <<orders, restaurants, menu, prices, items, locked, inst>>

InitItemOrders ==
    (1 :> Order("SUBMITTED", None, "a", NoCoords)) @@
    (2 :> Order("DELIVERED", "r1", "b", NoCoords))

InitItem ==
    /\ orders = InitItemOrders
    /\ restaurants = InitRestaurants
    /\ menu = InitMenu
    /\ prices = InitPrices
    /\ items = <<>>
    /\ locked = <<>>
    /\ inst = NoInstance
    /\ last = Idle

NextItem ==
    \/ NewItem
    \/ \E i \in 1..MaxItems : LoadItem(i)
    \/ EditItem
    \/ SaveItem
    \/ ChangePrice
    \/ ListOrders
    \/ Discard

SpecItem == InitItem /\ [][NextItem]_vars

\* -------------------------------------------------- restaurant matching
\* Python truthiness of an optional Decimal: None and 0 are false.
Truthy(coord) == coord # NoCoord /\ coord[1] # 0

Abs(x) == IF x < 0 THEN 0 - x ELSE x

\* geopy's distance.distance(a, b).km on the model's grid, in units of 0.1 m:
\* zero exactly when the two points coincide; one step of latitude is about
\* a metre, one step of longitude (far north) less than half a metre.
geodesic(lat1, lon1, lat2, lon2) == 11 * Abs(lat1 - lat2) + 4 * Abs(lon1 - lon2)

\* round(kms, 3): to the nearest metre (10 units), halves to the even metre.
round3(d) ==
    LET q == d \div 10
        r == d % 10
    IN IF r > 5 \/ (r = 5 /\ q % 2 = 1) THEN 10 * (q + 1) ELSE 10 * q

\* Restaurant.get_distance_to: None (<<>>) or the rounded distance.
get_distance_to(restaurant, address_lat, address_long) ==
    IF ~(Truthy(address_lat) /\ Truthy(address_long)
         /\ Truthy(restaurant.latitude) /\ Truthy(restaurant.longitude))
    THEN <<>>
    ELSE LET kms == geodesic(address_lat[1], address_long[1],
                             restaurant.latitude[1], restaurant.longitude[1])
         IN IF kms # 0 THEN <<round3(kms)>> ELSE <<>>

\* The sort key "distance or math.inf": <<>> stands for infinity.
sort_key(distance) == IF distance # <<>> /\ distance[1] # 0 THEN distance ELSE <<>>

KeyLess(a, b) == a # <<>> /\ (b = <<>> \/ a[1] < b[1])

\* sorted(list, key=...): stable, ascending; key is given as a function.
RECURSIVE insert_sorted(_, _, _)
insert_sorted(sorted_list, x, key) ==
    IF sorted_list = <<>> THEN <<x>>
    ELSE IF KeyLess(key[x], key[Head(sorted_list)])
    THEN <<x>> \o sorted_list
    ELSE <<Head(sorted_list)>> \o insert_sorted(Tail(sorted_list), x, key)

RECURSIVE sorted(_, _)
sorted(list, key) ==
    IF list = <<>> THEN <<>>
    ELSE LET front == sorted(SubSeq(list, 1, Len(list) - 1), key)
         IN insert_sorted(front, list[Len(list)], key)

\* [o.product for o in self.ordered_items.all()]: one entry per line item.
ordered_products(item_table, o) ==
    LET ids == ItemsOf(item_table, o)
        F[k \in 0..Cardinality(DOMAIN item_table)] ==
            IF k = 0 THEN <<>>
            ELSE IF k \in ids THEN Append(F[k - 1], item_table[k].product)
            ELSE F[k - 1]
    IN F[Cardinality(DOMAIN item_table)]

InSeq(x, list) == \E k \in DOMAIN list : list[k] = x

\* Order.get_matching_restaurants
get_matching_restaurants(order, item_table, rows, restaurant_table, order_by_remoteness) ==
    LET products == ordered_products(item_table, order.id)
        menu_items == SelectSeq(rows, LAMBDA row : row.availability)
        \* the defaultdict: its keys in insertion order, and its counts
        counted == SelectSeq(menu_items, LAMBDA row : InSeq(row.product, products))
        keys[k \in 0..Len(counted)] ==
            IF k = 0 THEN <<>>
            ELSE IF InSeq(counted[k].restaurant, keys[k - 1]) THEN keys[k - 1]
            ELSE Append(keys[k - 1], counted[k].restaurant)
        available_products(restaurant) ==
            Cardinality({k \in DOMAIN counted : counted[k].restaurant = restaurant})
        matching_restaurants ==
            SelectSeq(keys[Len(counted)],
                      LAMBDA restaurant : available_products(restaurant) = Len(products))
        distance_key ==
            [restaurant \in DOMAIN restaurant_table |->
                sort_key(get_distance_to(restaurant_table[restaurant],
                                         order.row.delivery_latitude,
                                         order.row.delivery_longitude))]
    IN IF order_by_remoteness THEN sorted(matching_restaurants, distance_key)
       ELSE matching_restaurants

\* An operator adds a menu row; (restaurant, product) is unique_together.
AddMenuItem ==
    /\ inst.kind = "none"
    /\ last = Idle
    /\ \E r \in RestaurantIds, p \in Products, a \in BOOLEAN :
          /\ \A k \in DOMAIN menu : ~(menu[k].restaurant = r /\ menu[k].product = p)
          /\ menu' = Append(menu, MenuItem(r, p, a))
    /\ UNCHANGED <<orders, restaurants, prices, items, locked, inst, last>>

\* An operator flips a menu row's availability.
SetAvailability ==
    /\ inst.kind = "none"
    /\ last = Idle
    /\ \E k \in DOMAIN menu :
          menu' = [menu EXCEPT ![k].availability = ~menu[k].availability]
    /\ UNCHANGED <<orders, restaurants, prices, items, locked, inst, last>>

\* The fulfillment view asks which restaurants can prepare order o.
GetMatching ==
    /\ inst.kind = "none"
    /\ last = Idle
    /\ \E o \in DOMAIN orders, order_by_remoteness \in BOOLEAN :
          last' = [op |-> "matching",
                   id |-> o,
                   order_by_remoteness |-> order_by_remoteness,
                   distance |-> [r \in DOMAIN restaurants |->
                                    get_distance_to(restaurants[r],
                                                    orders[o].delivery_latitude,
                                                    orders[o].delivery_longitude)],
                   result |-> get_matching_restaurants(
                                  OrderInstance(o, orders[o]), items, menu,
                                  restaurants, order_by_remoteness)]
    /\ UNCHANGED <<orders, restaurants, menu, prices, items, locked, inst>>

Point(latitude, longitude) == [latitude |-> <<latitude>>, longitude |-> <<longitude>>]

OrderPoints == {NoCoords, Point(1, 1)}
RestaurantPoints == {NoCoords, Point(1, 1), Point(1, 2), Point(2, 1), Point(3, 1)}

\* The line items of order 1, one per entry of a product list.
LineItems(product_list) ==
    [k \in DOMAIN product_list |->
        OrderedItem(1, product_list[k], 1, InitPrices[product_list[k]])]

InitMatch ==
    /\ \E c \in OrderPoints : orders = (1 :> Order("SUBMITTED", None, "a", c))
    /\ \E c \in [RestaurantIds -> RestaurantPoints] :
          restaurants = [r \in RestaurantIds |-> Restaurant("a", c[r])]
    /\ menu = <<>>
    /\ prices = InitPrices
    /\ \E product_list \in SeqsUpTo(Products, MaxItems) :
          /\ items = LineItems(product_list)
          /\ locked = [k \in DOMAIN product_list |-> InitPrices[product_list[k]]]
    /\ inst = NoInstance
    /\ last = Idle

NextMatch ==
    \/ AddMenuItem
    \/ SetAvailability
    \/ GetMatching
    \/ Discard

SpecMatch == InitMatch /\ [][NextMatch]_vars

\* ------------------------------------------------------- restaurant steps
\* restaurant = Restaurant.objects.get(id=r)
LoadRestaurant(r) ==
    /\ inst.kind = "none"
    /\ last = Idle
    /\ r \in DOMAIN restaurants
    /\ inst' = RestaurantInstance(r, restaurants[r])
    /\ UNCHANGED <<orders, restaurants, menu, prices, items, locked, last>>

\* Restaurant(address=...): a new restaurant, not saved yet.
NewRestaurant ==
    /\ inst.kind = "none"
    /\ last = Idle
    /\ \E a \in Addresses : inst' = RestaurantInstance(None, Restaurant(a, NoCoords))
    /\ UNCHANGED <<orders, restaurants, menu, prices, items, locked, last>>

\* The caller writes the fields of the instance.
EditRestaurant ==
    /\ inst.kind = "restaurant"
    /\ \/ \E a \in Addresses : inst' = [inst EXCEPT !.row.address = a]
       \/ \E c \in CoordPairs :
             inst' = [inst EXCEPT !.row.latitude = c.latitude,
                                  !.row.longitude = c.longitude]
    /\ inst' # inst
    /\ last' = Idle
    /\ UNCHANGED <<orders, restaurants, menu, prices, items, locked>>

\* restaurant.save(): the pre_save hook, then the write.
SaveRestaurant ==
    /\ inst.kind = "restaurant"
    /\ \E response \in Responses :
          LET saved == Restaurant_save(restaurants, inst, "r3", response)
          IN /\ (saved.calls = 0 => response = NoResponse)
             /\ inst' = [inst EXCEPT !.row = saved.row, !.id = saved.id]
             /\ restaurants' = saved.table
             /\ last' = [op |-> "save_restaurant",
                         id |-> inst.id,
                         outcome |-> IF saved.raised = "" THEN "ok" ELSE saved.raised,
                         previous |-> IF inst.id \in DOMAIN restaurants
                                      THEN <<restaurants[inst.id]>> ELSE <<>>,
                         proposed |-> inst.row,
                         calls |-> saved.calls,
                         geo |-> GeoOutcome(saved.calls, response),
                         place |-> FirstPlace(saved.calls, response)]
    /\ UNCHANGED <<orders, menu, prices, items, locked>>

NextRestaurant ==
    \/ \E r \in RestaurantIds : LoadRestaurant(r)
    \/ NewRestaurant
    \/ EditRestaurant
    \/ SaveRestaurant
    \/ Discard

SpecRestaurant == Init /\ [][NextRestaurant]_vars

\* ------------------------------------------------- address and coordinates
\* The caller writes the address of the loaded order or restaurant.
EditAddress ==
    /\ inst.kind \in {"order", "restaurant"}
    /\ \E a \in Addresses :
          inst' = IF inst.kind = "order"
                  THEN [inst EXCEPT !.row.delivery_address = a]
                  ELSE [inst EXCEPT !.row.address = a]
    /\ inst' # inst
    /\ last' = Idle
    /\ UNCHANGED <<orders, restaurants, menu, prices, items, locked>>

\* The caller writes the coordinates of the loaded order or restaurant by hand.
EditCoordinates ==
    /\ inst.kind \in {"order", "restaurant"}
    /\ \E c \in CoordPairs :
          inst' = IF inst.kind = "order"
                  THEN [inst EXCEPT !.row.delivery_latitude = c.latitude,
                                    !.row.delivery_longitude = c.longitude]
                  ELSE [inst EXCEPT !.row.latitude = c.latitude,
                                    !.row.longitude = c.longitude]
    /\ inst' # inst
    /\ last' = Idle
    /\ UNCHANGED <<orders, restaurants, menu, prices, items, locked>>

\* Orders and restaurants whose coordinates only the receivers write.
NextLocation ==
    \/ \E o \in 1..MaxOrders : LoadOrder(o)
    \/ \E r \in RestaurantIds : LoadRestaurant(r)
    \/ EditAddress
    \/ SaveOrder
    \/ SaveRestaurant
    \/ Discard

SpecLocation == Init /\ [][NextLocation]_vars

\* The same, with coordinates the caller may also write by hand.
NextGeocoding ==
    \/ \E o \in 1..MaxOrders : LoadOrder(o)
    \/ \E r \in RestaurantIds : LoadRestaurant(r)
    \/ EditAddress
    \/ EditCoordinates
    \/ SaveOrder
    \/ SaveRestaurant
    \/ Discard

SpecGeocoding == Init /\ [][NextGeocoding]_vars

NextOrder ==
    \/ \E o \in 1..MaxOrders : LoadOrder(o)
    \/ NewOrder
    \/ EditOrder
    \/ SaveOrder
    \/ CreateOrder
    \/ Discard

SpecOrder == Init /\ [][NextOrder]_vars


\* ===================================================================== claims

\* ---- C1 (SpecMatch), as stated: for an order with at least one line item,
\* get_matching_restaurants returns restaurant r iff the number of r's menu
\* rows with availability = true whose product is in the order's DISTINCT
\* product set equals the size of that set.
DistinctProducts(o) == {items[k].product : k \in ItemsOf(items, o)}

AvailableRows(r, product_set) ==
    {k \in DOMAIN menu :
        menu[k].restaurant = r /\ menu[k].availability /\ menu[k].product \in product_set}

C1_MatchingIffCoversDistinctSet ==
    (last.op = "matching" /\ DistinctProducts(last.id) # {}) =>
        \A r \in RestaurantIds :
            InSeq(r, last.result) <=>
                Cardinality(AvailableRows(r, DistinctProducts(last.id)))
                    = Cardinality(DistinctProducts(last.id))

\* ---- C2 (SpecItem): every stored OrderedItem still has the product_price
\* it was first stored with, and no save of an existing item raises.
C2_LockedPriceNeverChanges ==
    /\ \A k \in DOMAIN items : items[k].product_price = locked[k]
    /\ (last.op = "save_item" /\ ~last.created) => last.outcome = "ok"

\* C2's case: an existing item was saved with another product_price and
\* another quantity after its product's catalog price had changed.
C2_Witness ==
    /\ last.op = "save_item"
    /\ ~last.created
    /\ last.outcome = "ok"
    /\ last.proposed.product_price # locked[last.id]
    /\ last.unit_price * last.proposed.quantity # locked[last.id]
    /\ last.unit_price # InitPrices[last.proposed.product]
    /\ items[last.id].quantity = last.proposed.quantity
    /\ items[last.id].product_price = locked[last.id]

\* ---- C3 (SpecOrder): a completed save of an existing order whose stored
\* executing restaurant is absent and whose proposed one is present stores
\* status IN_PROGRESS, whatever status the caller supplied and whatever the
\* stored status was.  (A save the hook aborts stores nothing.)
C3_AssignmentForcesInProgress ==
    (/\ last.op = "save_order"
     /\ last.outcome = "ok"
     /\ last.previous.executing_restaurant = None
     /\ last.proposed.executing_restaurant # None)
        => orders[last.id].status = "IN_PROGRESS"

\* C3's case: the caller supplied DELIVERED while assigning the first
\* restaurant to an order stored as IN_DELIVERY.
C3_Witness ==
    /\ last.op = "save_order"
    /\ last.outcome = "ok"
    /\ last.previous.executing_restaurant = None
    /\ last.previous.status = "IN_DELIVERY"
    /\ last.proposed.executing_restaurant = "r1"
    /\ last.proposed.status = "DELIVERED"
    /\ orders[last.id].executing_restaurant = "r1"
    /\ orders[last.id].status = "IN_PROGRESS"

\* ---- C4 (SpecItem), as stated: for every listed order with line items,
\* the derived total_amount equals the sum of its line items' product_price.
LockedPrices == [k \in DOMAIN items |-> items[k].product_price]

C4_TotalIsSumOfLockedPrices ==
    last.op = "total_amount" =>
        \A o \in DOMAIN last.result :
            ItemsOf(items, o) # {} =>
                last.result[o] = <<SumOver(ItemsOf(items, o), LockedPrices)>>

\* ---- C5 (SpecOrder), as stated: no stored order has a non-null executing
\* restaurant together with status SUBMITTED.
C5_NoSubmittedWithRestaurant ==
    \A o \in DOMAIN orders :
        ~(orders[o].executing_restaurant # None /\ orders[o].status = "SUBMITTED")

\* ---- C5 as amended (SpecOrder): a completed save stores a non-null
\* executing restaurant together with SUBMITTED only when it leaves a present
\* executing restaurant unchanged and the caller supplied SUBMITTED.
C5_SubmittedWithRestaurantOnlyByHand ==
    (/\ last.op = "save_order"
     /\ last.outcome = "ok"
     /\ orders[last.id].executing_restaurant # None
     /\ orders[last.id].status = "SUBMITTED")
        => /\ last.previous.executing_restaurant = orders[last.id].executing_restaurant
           /\ last.proposed.status = "SUBMITTED"

\* C5's case: an order that was IN_PROGRESS at r1 is stored as SUBMITTED at r1.
C5_Witness ==
    /\ last.op = "save_order"
    /\ last.outcome = "ok"
    /\ last.previous.executing_restaurant = "r1"
    /\ last.previous.status = "IN_PROGRESS"
    /\ orders[last.id].executing_restaurant = "r1"
    /\ orders[last.id].status = "SUBMITTED"

\* ---- C6 (SpecOrder), as stated: a save that changes the delivery address
\* to a new non-empty text for which the geocoder reports unresolved
\* completes without an error and keeps the stored coordinates.
C6_UnresolvedSaveCompletes ==
    (last.op = "save_order" /\ last.geo = "unresolved") =>
        /\ last.outcome = "ok"
        /\ orders[last.id].delivery_address = last.proposed.delivery_address
        /\ orders[last.id].delivery_latitude = last.previous.delivery_latitude
        /\ orders[last.id].delivery_longitude = last.previous.delivery_longitude

\* ---- C7 (SpecOrder), as stated: after a save whose new address the
\* geocoder resolves, the stored latitude is the first place's latitude and
\* the stored longitude is that place's longitude.
C7_ResolvedSaveStoresLatLon ==
    (last.op = "save_order" /\ last.geo = "resolved" /\ last.outcome = "ok") =>
        /\ orders[last.id].delivery_latitude = <<last.place[1].latitude>>
        /\ orders[last.id].delivery_longitude = <<last.place[1].longitude>>

\* ---- C8 (SpecOrder), as stated: a completed save that changes the
\* executing restaurant from one present restaurant to a different present
\* one stores the status the caller supplied.
C8_ReassignmentKeepsCallerStatus ==
    (/\ last.op = "save_order"
     /\ last.outcome = "ok"
     /\ last.previous.executing_restaurant # None
     /\ last.proposed.executing_restaurant # None
     /\ last.previous.executing_restaurant # last.proposed.executing_restaurant)
        => orders[last.id].status = last.proposed.status

\* ---- C8 as amended (SpecOrder): such a reassignment fires the status rule
\* too: the stored status is IN_PROGRESS whatever the caller supplied.
C8_ReassignmentForcesInProgress ==
    (/\ last.op = "save_order"
     /\ last.outcome = "ok"
     /\ last.previous.executing_restaurant # None
     /\ last.proposed.executing_restaurant # None
     /\ last.previous.executing_restaurant # last.proposed.executing_restaurant)
        => orders[last.id].status = "IN_PROGRESS"

\* C8's case: an IN_DELIVERY order is moved from r1 to r2, the caller keeping
\* IN_DELIVERY, and is stored as IN_PROGRESS at r2.
C8_Witness ==
    /\ last.op = "save_order"
    /\ last.outcome = "ok"
    /\ last.previous.executing_restaurant = "r1"
    /\ last.previous.status = "IN_DELIVERY"
    /\ last.proposed.executing_restaurant = "r2"
    /\ last.proposed.status = "IN_DELIVERY"
    /\ orders[last.id].executing_restaurant = "r2"
    /\ orders[last.id].status = "IN_PROGRESS"

\* ---- C9 (SpecOrder): after every call of OrderSerializer.create either the
\* header is stored with all its line items, or the call failed and the
\* stored orders and line items are those of before the call.  (Holds, but
\* every call fails in update_order before anything is written.)
C9_AllOrNothing ==
    last.op = "create_order" =>
        \/ /\ last.outcome = "ok"
           /\ last.id \in DOMAIN orders
           /\ Cardinality(ItemsOf(items, last.id)) = Len(last.data.products)
        \/ /\ last.outcome # "ok"
           /\ orders = last.before.orders
           /\ items = last.before.items

\* ---- C10 (SpecOrder), as stated: the intake of a valid payload completes
\* and stores a new order with status SUBMITTED and no executing restaurant.
C10_ValidIntakeCreatesSubmittedOrder ==
    (last.op = "create_order" /\ is_valid(menu, last.data)) =>
        /\ last.outcome = "ok"
        /\ last.id \in DOMAIN orders
        /\ last.id \notin DOMAIN last.before.orders
        /\ orders[last.id].status = "SUBMITTED"
        /\ orders[last.id].executing_restaurant = None

\* ---- C11 (SpecOrder), as stated: the save of a new order whose caller
\* supplied status DELIVERED together with an executing restaurant completes
\* and stores the order with status IN_PROGRESS.
C11_CreatedDeliveredWithRestaurantIsInProgress ==
    (/\ last.op = "insert_order"
     /\ last.proposed.status = "DELIVERED"
     /\ last.proposed.executing_restaurant # None)
        => /\ last.outcome = "ok"
           /\ last.id \in DOMAIN orders
           /\ orders[last.id].status = "IN_PROGRESS"

\* ---- C12 (SpecMatch), as stated: with order_by_remoteness = true the
\* returned list is ascending in the distance get_distance_to reports, every
\* restaurant of unknown distance comes after every one of known distance,
\* and for every iteration order of the menu rows the call returns the same
\* set of restaurants with the same sequence of distances.
Reorderings(rows) ==
    {[k \in DOMAIN rows |-> rows[f[k]]] : f \in Permutations(DOMAIN rows)}

DistancesOf(result, distance) == [k \in DOMAIN result |-> distance[result[k]]]

Ascending(distances) ==
    \A i, j \in DOMAIN distances :
        i < j => /\ (distances[j] # <<>> => distances[i] # <<>>)
                 /\ (distances[i] # <<>> /\ distances[j] # <<>>)
                        => distances[i][1] <= distances[j][1]

C12_RankedByDistance ==
    (last.op = "matching" /\ last.order_by_remoteness) =>
        /\ Ascending(DistancesOf(last.result, last.distance))
        /\ \A rows \in Reorderings(menu) :
              LET other == get_matching_restaurants(
                               OrderInstance(last.id, orders[last.id]), items, rows,
                               restaurants, TRUE)
              IN /\ {other[k] : k \in DOMAIN other}
                        = {last.result[k] : k \in DOMAIN last.result}
                 /\ DistancesOf(other, last.distance)
                        = DistancesOf(last.result, last.distance)

\* ---- C16 (SpecMatch), as stated: get_distance_to never returns zero; it
\* reports no distance when a coordinate of the order or of the restaurant is
\* absent and when the restaurant stands at the delivery point; such a
\* restaurant stays in the returned list and, with order_by_remoteness, comes
\* after every returned restaurant of known positive distance.
Absent(row_latitude, row_longitude) == row_latitude = NoCoord \/ row_longitude = NoCoord

IndexOf(x, list) == CHOOSE k \in DOMAIN list : list[k] = x

C16_ZeroDistanceIsUnknown ==
    last.op = "matching" =>
        LET order == orders[last.id]
            unsorted == get_matching_restaurants(
                            OrderInstance(last.id, order), items, menu, restaurants, FALSE)
        IN \A r \in DOMAIN restaurants :
              /\ last.distance[r] # <<0>>
              /\ (\/ Absent(order.delivery_latitude, order.delivery_longitude)
                  \/ Absent(restaurants[r].latitude, restaurants[r].longitude))
                    => last.distance[r] = <<>>
              /\ (/\ ~Absent(order.delivery_latitude, order.delivery_longitude)
                  /\ restaurants[r].latitude = order.delivery_latitude
                  /\ restaurants[r].longitude = order.delivery_longitude)
                    => /\ last.distance[r] = <<>>
                       /\ InSeq(r, unsorted) => InSeq(r, last.result)
                       /\ (last.order_by_remoteness /\ InSeq(r, last.result)) =>
                             \A other \in DOMAIN restaurants :
                                 (/\ InSeq(other, last.result)
                                  /\ last.distance[other] # <<>>
                                  /\ last.distance[other][1] > 0)
                                     => IndexOf(other, last.result) < IndexOf(r, last.result)

\* ---- C17 (SpecMatch), as stated: for an order without line items
\* get_matching_restaurants returns every restaurant.
C17_NoLineItemsMatchesEveryRestaurant ==
    (last.op = "matching" /\ ItemsOf(items, last.id) = {}) =>
        \A r \in DOMAIN restaurants : InSeq(r, last.result)

\* ---- C13 (SpecOrder): the intake of a payload with an empty product list,
\* with a quantity outside 1..1000, or with a product that no menu row marks
\* available is rejected with a validation error, and the stored orders and
\* line items are those of before the call.
MarkedAvailable == {menu[k].product : k \in {j \in DOMAIN menu : menu[j].availability = TRUE}}

BadPayload(data) ==
    \/ Len(data.products) = 0
    \/ \E k \in DOMAIN data.products :
          \/ data.products[k].quantity < 1
          \/ data.products[k].quantity > 1000
          \/ data.products[k].product \notin MarkedAvailable

C13_BadPayloadRejected ==
    (last.op = "create_order" /\ BadPayload(last.data)) =>
        /\ last.outcome = "ValidationError"
        /\ orders = last.before.orders
        /\ items = last.before.items

\* C13's case: a payload whose first entry is acceptable and whose second
\* entry asks for 1001 pieces was rejected and nothing was stored.
C13_Witness ==
    /\ last.op = "create_order"
    /\ last.outcome = "ValidationError"
    /\ Len(last.data.products) = 2
    /\ last.data.products[1] = [product |-> "pA", quantity |-> 1]
    /\ last.data.products[2] = [product |-> "pA", quantity |-> 1001]
    /\ orders = last.before.orders
    /\ items = <<>>

\* ---- C14 (SpecOrder), as stated: a completed save of an order stored as
\* DELIVERED in which the caller keeps status DELIVERED stores DELIVERED.
C14_DeliveredStaysDelivered ==
    (/\ last.op = "save_order"
     /\ last.outcome = "ok"
     /\ last.previous.status = "DELIVERED"
     /\ last.proposed.status = "DELIVERED")
        => orders[last.id].status = "DELIVERED"

\* ---- C15 (SpecItem), as stated: the first save of an OrderedItem with a
\* quantity in 1..1000 and a non-negative unit price completes and stores
\* product_price = quantity x the product's price, whatever product_price the
\* caller supplied, and that value fits the product_price column.
C15_CreationLocksQuantityTimesPrice ==
    (/\ last.op = "save_item"
     /\ last.created
     /\ last.proposed.quantity \in 1..1000
     /\ last.unit_price >= 0)
        => /\ last.outcome = "ok"
           /\ last.id \in DOMAIN items
           /\ items[last.id].product_price = last.proposed.quantity * last.unit_price
           /\ items[last.id].product_price <= MaxProductPrice

\* ---- C19 (SpecOrder): a completed save of an existing order that leaves
\* the executing restaurant as stored, or that clears a present one, stores
\* exactly the status the caller supplied.
C19_UnchangedOrClearedKeepsCallerStatus ==
    (/\ last.op = "save_order"
     /\ last.outcome = "ok"
     /\ \/ last.proposed.executing_restaurant = last.previous.executing_restaurant
        \/ (last.previous.executing_restaurant # None
            /\ last.proposed.executing_restaurant = None))
        => orders[last.id].status = last.proposed.status

\* C19's case: an order stored as IN_PROGRESS at r1 was saved with the same
\* restaurant and status DELIVERED, and is stored as DELIVERED at r1.
C19_Witness ==
    /\ last.op = "save_order"
    /\ last.outcome = "ok"
    /\ last.previous.executing_restaurant = "r1"
    /\ last.previous.status = "IN_PROGRESS"
    /\ last.proposed.executing_restaurant = "r1"
    /\ last.proposed.status = "DELIVERED"
    /\ orders[last.id].executing_restaurant = "r1"
    /\ orders[last.id].status = "DELIVERED"

\* ---- C18 (SpecLocation): starting without coordinates and with only the
\* receivers writing them, every stored order and every stored restaurant has
\* its latitude present exactly when its longitude is present.
C18_LatitudeIffLongitude ==
    /\ \A o \in DOMAIN orders :
          (orders[o].delivery_latitude # NoCoord) <=> (orders[o].delivery_longitude # NoCoord)
    /\ \A r \in DOMAIN restaurants :
          (restaurants[r].latitude # NoCoord) <=> (restaurants[r].longitude # NoCoord)

\* C18's case: after a resolved lookup had given the order its coordinates,
\* a restaurant's save ended in an unresolved lookup while another
\* restaurant already had coordinates from a resolved one.
C18_Witness ==
    /\ last.op = "save_restaurant"
    /\ last.geo = "unresolved"
    /\ orders[1].delivery_latitude # NoCoord
    /\ orders[1].delivery_longitude # NoCoord
    /\ \E r \in DOMAIN restaurants :
          /\ r # last.id
          /\ restaurants[r].latitude # NoCoord
          /\ restaurants[r].longitude # NoCoord
    /\ restaurants[last.id].latitude = NoCoord
    /\ restaurants[last.id].longitude = NoCoord

\* ---- C20 (SpecGeocoding): a save of a stored order or restaurant calls
\* the geocoder at most once, and only when the address differs from the
\* stored one and is not empty; otherwise it makes no call, completes, and
\* stores the coordinates the caller supplied.
NewAddress(stored, supplied) == stored # supplied /\ supplied # ""

C20_GeocoderOnlyForNewAddress ==
    /\ last.op = "save_order" =>
          /\ last.calls <= 1
          /\ last.calls = 1 =>
                NewAddress(last.previous.delivery_address, last.proposed.delivery_address)
          /\ ~NewAddress(last.previous.delivery_address, last.proposed.delivery_address) =>
                /\ last.calls = 0
                /\ last.outcome = "ok"
                /\ orders[last.id].delivery_latitude = last.proposed.delivery_latitude
                /\ orders[last.id].delivery_longitude = last.proposed.delivery_longitude
    /\ (last.op = "save_restaurant" /\ last.previous # <<>>) =>
          /\ last.calls <= 1
          /\ last.calls = 1 => NewAddress(last.previous[1].address, last.proposed.address)
          /\ ~NewAddress(last.previous[1].address, last.proposed.address) =>
                /\ last.calls = 0
                /\ last.outcome = "ok"
                /\ restaurants[last.id].latitude = last.proposed.latitude
                /\ restaurants[last.id].longitude = last.proposed.longitude

\* C20's case: a restaurant with coordinates was saved with its address
\* emptied and other coordinates written by hand; no lookup was made and the
\* hand-written coordinates are stored.
C20_Witness ==
    /\ last.op = "save_restaurant"
    /\ last.previous # <<>>
    /\ last.previous[1].address = "a"
    /\ last.previous[1].latitude = <<2>>
    /\ last.proposed.address = ""
    /\ last.proposed.latitude = <<1>>
    /\ last.calls = 0
    /\ last.outcome = "ok"
    /\ restaurants[last.id].address = ""
    /\ restaurants[last.id].latitude = <<1>>
    /\ restaurants[last.id].longitude = <<2>>

====
